---- MODULE Spec2Model ----
(***************************************************************************)
(* Model of the HTTP header formatter page (script.js), of the deployment  *)
(* script (deploy-bot.sh) and of the quick update script.                  *)
(*                                                                         *)
(* A JavaScript string is a sequence of one-character strings.             *)
(***************************************************************************)
EXTENDS Integers, Sequences, FiniteSets

VARIABLES
    inputHeaders,    \* value of the textarea #inputHeaders
    outputHeaders,   \* value of the textarea #outputHeaders
    writeRequests,   \* navigator.clipboard.writeText promises not yet settled
    clipboard,       \* text held by the system clipboard
    alertShown,      \* the modal alert of copyToClipboard is on screen
    lastEvent,       \* the last user event handled by the page
    snapshot,        \* history: one format request and what followed it
    \* deploy-bot.sh
    dPc,             \* the function main runs next, or "done" / "exited"
    dEuid,           \* $EUID of the run
    dUserExists,     \* the account ytbot exists
    dChanges,        \* the system changes made so far
    dFailed,         \* history: the commands that returned non-zero
    dTrace,          \* history: the functions entered, in order
    dActiveAtCheck,  \* what systemctl is-active answered in test_bot
    dComplete,       \* the "DEPLOYMENT COMPLETE" banner was printed
    dExit,           \* exit status of the script, -1 while it runs
    \* the update script
    uPc,             \* the command the update script runs next
    uEuid,           \* $EUID of the run
    uService,        \* state of youtube-bot.service
    uMainPy,         \* content of main.py
    uLog,            \* history: the commands this run has run, with their results
    uOut,            \* the reports this run has printed
    uExit,           \* exit status of the script, -1 while it runs
    uRuns            \* how many times the script has been started

uiVars == <<inputHeaders, outputHeaders, writeRequests, clipboard, alertShown,
            lastEvent, snapshot>>

deployVars == <<dPc, dEuid, dUserExists, dChanges, dFailed, dTrace,
                dActiveAtCheck, dComplete, dExit>>

updateVars == <<uPc, uEuid, uService, uMainPy, uLog, uOut, uExit, uRuns>>

vars == <<uiVars, deployVars, updateVars>>

\* ---------------------------------------------------------------- bounds
MaxLen == 7
MaxEdit == 3
MaxPending == 1
MaxRuns == 3

\* ------------------------------------------------------------ characters
NL == "\n"
SP == " "
Chars == {"a", "b", SP, NL}
EditChars == {"a", NL}

Strings(alphabet, n) == UNION {[1..k -> alphabet] : k \in 0..n}

\* ------------------------------------------------- String.prototype.trim
isWhiteSpace(c) == c \in {SP, NL}

RECURSIVE trimStart(_)
trimStart(s) ==
    IF s # <<>> /\ isWhiteSpace(Head(s)) THEN trimStart(Tail(s)) ELSE s

RECURSIVE trimEnd(_)
trimEnd(s) ==
    IF s # <<>> /\ isWhiteSpace(s[Len(s)])
    THEN trimEnd(SubSeq(s, 1, Len(s) - 1))
    ELSE s

trim(s) == trimEnd(trimStart(s))

\* ------------------------------------------- String.prototype.split("\n")
RECURSIVE splitFrom(_, _)
splitFrom(s, cur) ==
    IF s = <<>> THEN <<cur>>
    ELSE IF Head(s) = NL THEN <<cur>> \o splitFrom(Tail(s), <<>>)
    ELSE splitFrom(Tail(s), Append(cur, Head(s)))

split(s) == splitFrom(s, <<>>)

\* Boolean(x) for a string or undefined
Undefined == <<"undefined">>
Boolean(x) == x # Undefined /\ x # <<>>

\* mutant: the filter keeps every entry
filterNothing(ls) == ls

\* mutant: the filter also drops the lines that trim to empty
filterBlank(ls) == SelectSeq(ls, LAMBDA l : trim(l) # <<>>)

filterBoolean(ls) == SelectSeq(ls, Boolean)

\* const lines = input.split("\n").filter(Boolean), input being trimmed
linesOf(raw) == filterBoolean(split(trim(raw)))

\* mutant: the line is taken untrimmed
optNoTrim(lines, i) == IF i <= Len(lines) THEN lines[i] ELSE Undefined

\* lines[i]?.trim(), with 1-based i
optTrim(lines, i) == IF i <= Len(lines) THEN trim(lines[i]) ELSE Undefined

\* mutant: key || value
emitsEither(key, value) == Boolean(key) \/ Boolean(value)

\* if (key && value)
emits(key, value) == Boolean(key) /\ Boolean(value)

\* mutant: i += 1
nextIndexByOne(i) == i + 1

\* i += 2
nextIndex(i) == i + 2

\* mutant: the result starts from the previous output
resultKeepsPrevious(previous) == previous

\* let result = ""
resultInit(previous) == <<>>

\* the for loop; used records the index i of every iteration that appended
RECURSIVE formatLoop(_, _, _)
formatLoop(lines, i, acc) ==
    IF i > Len(lines) THEN acc
    ELSE LET key == optTrim(lines, i)
             value == optTrim(lines, i + 1)
         IN  formatLoop(lines, nextIndex(i),
                IF emits(key, value)
                THEN [result |-> acc.result \o key \o <<":", SP>> \o value \o <<NL>>,
                      used |-> Append(acc.used, i)]
                ELSE acc)

runLoop(lines, previous) ==
    formatLoop(lines, 1, [result |-> resultInit(previous), used |-> <<>>])

\* the value written to the output field: result.trim()
formatLines(lines, previous) == trim(runLoop(lines, previous).result)

formatted(raw, previous) == formatLines(linesOf(raw), previous)

\* mutant: the input field is copied
copyTextOfInput(input, output) == input

\* navigator.clipboard.writeText(output.value)
copyText(input, output) == output

\* what the clipboard holds before the page writes to it
OtherText == <<"other">>
NoSnapshot == [taken |-> FALSE]

\* ------------------------------------------------------------- handlers
\* history of one format request, chosen freely: "taken", then "other" once
\* a request on another input gave another output, then "again" once the
\* input of the chosen request was formatted again after that
snapshotAfter(out, take) ==
    IF ~snapshot.taken
    THEN IF take
         THEN [taken |-> TRUE, input |-> inputHeaders, output |-> out,
               phase |-> "taken"]
         ELSE snapshot
    ELSE IF snapshot.phase = "taken" /\ inputHeaders # snapshot.input
            /\ out # snapshot.output
    THEN [snapshot EXCEPT !.phase = "other"]
    ELSE IF snapshot.phase = "other" /\ inputHeaders = snapshot.input
    THEN [snapshot EXCEPT !.phase = "again"]
    ELSE snapshot

formatHeaders ==
    /\ ~alertShown
    /\ outputHeaders' = formatted(inputHeaders, outputHeaders)
    /\ lastEvent' = "format"
    /\ \E take \in BOOLEAN : snapshot' = snapshotAfter(outputHeaders', take)
    /\ UNCHANGED <<inputHeaders, writeRequests, clipboard, alertShown>>
    /\ UNCHANGED <<deployVars, updateVars>>

copyToClipboard ==
    /\ ~alertShown
    /\ Len(writeRequests) < MaxPending
    /\ writeRequests' = Append(writeRequests, copyText(inputHeaders, outputHeaders))
    /\ alertShown' = TRUE
    /\ lastEvent' = "copy"
    /\ UNCHANGED <<inputHeaders, outputHeaders, clipboard, snapshot>>
    /\ UNCHANGED <<deployVars, updateVars>>

\* the user closes the alert
dismissAlert ==
    /\ alertShown
    /\ alertShown' = FALSE
    /\ UNCHANGED <<inputHeaders, outputHeaders, writeRequests, clipboard,
                   lastEvent, snapshot>>
    /\ UNCHANGED <<deployVars, updateVars>>

\* the host settles the oldest writeText promise: stored, or refused
clipboardWriteFulfilled ==
    /\ writeRequests # <<>>
    /\ clipboard' = Head(writeRequests)
    /\ writeRequests' = Tail(writeRequests)
    /\ UNCHANGED <<inputHeaders, outputHeaders, alertShown, lastEvent, snapshot>>
    /\ UNCHANGED <<deployVars, updateVars>>

clipboardWriteRejected ==
    /\ writeRequests # <<>>
    /\ writeRequests' = Tail(writeRequests)
    /\ UNCHANGED <<inputHeaders, outputHeaders, clipboard, alertShown, lastEvent,
                   snapshot>>
    /\ UNCHANGED <<deployVars, updateVars>>

\* the user types a character at the end of the input field, or deletes the
\* last one
editInput ==
    /\ ~alertShown
    /\ \/ \E c \in EditChars :
             /\ Len(inputHeaders) < MaxEdit
             /\ inputHeaders' = Append(inputHeaders, c)
       \/ /\ inputHeaders # <<>>
          /\ inputHeaders' = SubSeq(inputHeaders, 1, Len(inputHeaders) - 1)
    /\ lastEvent' = "edit"
    /\ UNCHANGED <<outputHeaders, writeRequests, clipboard, alertShown, snapshot>>
    /\ UNCHANGED <<deployVars, updateVars>>

\* ========================================================= deploy-bot.sh
\* main calls these functions in this order
StepOrder == <<"check_root", "update_system", "install_dependencies",
               "create_bot_user", "download_bot", "setup_python_env",
               "configure_env", "create_service", "test_bot", "show_management">>

\* The commands of a function that can return non-zero, in order. kind:
\*   "simple"   a simple command (or the last one of an && list or pipeline)
\*   "andLeft"  the left operand of &&: the next command runs only if it succeeds
\*   "pipeLeft" a command of a pipeline other than the last
\* print_*, echo, clear, sleep, head and journalctl only write to the
\* terminal and return 0.
Cmd(name, kind, changes) == [name |-> name, kind |-> kind, changes |-> changes]

Commands(step) ==
    CASE step = "update_system" ->
            <<Cmd("apt update", "andLeft", TRUE), Cmd("apt upgrade", "simple", TRUE)>>
      [] step = "install_dependencies" ->
            <<Cmd("apt install", "simple", TRUE),
              Cmd("python3 --version", "simple", FALSE),
              Cmd("pip3 --version", "simple", FALSE),
              Cmd("git --version", "simple", FALSE),
              Cmd("ffmpeg -version", "pipeLeft", FALSE)>>
      [] step = "download_bot" ->
            <<Cmd("wget main.py", "simple", TRUE),
              Cmd("cat > requirements.txt", "simple", TRUE)>>
      [] step = "setup_python_env" ->
            <<Cmd("cd", "simple", FALSE),
              Cmd("python3 -m venv", "simple", TRUE),
              Cmd("pip install", "simple", TRUE)>>
      [] step = "configure_env" ->
            <<Cmd("read BOT_TOKEN", "simple", FALSE),
              Cmd("read ADMIN_ID", "simple", FALSE),
              Cmd("cat > .env", "simple", TRUE)>>
      [] step = "create_service" ->
            <<Cmd("cat > unit", "simple", TRUE),
              Cmd("chown", "simple", TRUE),
              Cmd("chmod", "simple", TRUE),
              Cmd("systemctl daemon-reload", "simple", TRUE),
              Cmd("systemctl enable", "simple", TRUE)>>
      [] OTHER -> <<>>

CommandNames(step) == {Commands(step)[i].name : i \in 1..Len(Commands(step))}

\* set -e: the shell exits when a simple command fails, not when the failing
\* command is a non-final operand of && or a non-final command of a pipeline
errexit(kind) == kind = "simple"

NoRun == [failed |-> {}, changed |-> {}, exited |-> FALSE]

\* runs cmds from the i-th on; fails are the commands that return non-zero
RECURSIVE runCommands(_, _, _, _)
runCommands(cmds, i, fails, acc) ==
    IF i > Len(cmds) THEN acc
    ELSE LET c == cmds[i]
         IN  IF c.name \notin fails
             THEN runCommands(cmds, i + 1, fails,
                     [acc EXCEPT !.changed = IF c.changes THEN @ \cup {c.name} ELSE @])
             ELSE LET seen == [acc EXCEPT !.failed = @ \cup {c.name}]
                  IN  IF errexit(c.kind) THEN [seen EXCEPT !.exited = TRUE]
                      ELSE IF c.kind = "andLeft"
                      THEN runCommands(cmds, i + 2, fails, seen)
                      ELSE runCommands(cmds, i + 1, fails, seen)

nextStep(step) ==
    LET i == CHOOSE j \in 1..Len(StepOrder) : StepOrder[j] = step
    IN  IF i < Len(StepOrder) THEN StepOrder[i + 1] ELSE "done"

\* a function whose body is a plain list of commands
runStep(step) ==
    /\ dPc = step
    /\ \E fails \in SUBSET CommandNames(step) :
          LET r == runCommands(Commands(step), 1, fails, NoRun)
          IN  /\ dFailed' = dFailed \cup r.failed
              /\ dChanges' = dChanges \cup r.changed
              /\ dPc' = IF r.exited THEN "exited" ELSE nextStep(step)
              /\ dExit' = IF r.exited THEN 1 ELSE dExit
    /\ dTrace' = Append(dTrace, step)
    /\ UNCHANGED <<dEuid, dUserExists, dActiveAtCheck, dComplete>>
    /\ UNCHANGED <<uiVars, updateVars>>

check_root ==
    /\ dPc = "check_root"
    /\ dTrace' = Append(dTrace, "check_root")
    /\ IF dEuid = 0
       THEN dPc' = nextStep("check_root") /\ dExit' = dExit
       ELSE dPc' = "exited" /\ dExit' = 1
    /\ UNCHANGED <<dEuid, dUserExists, dChanges, dFailed, dActiveAtCheck, dComplete>>
    /\ UNCHANGED <<uiVars, updateVars>>

update_system == runStep("update_system")

install_dependencies == runStep("install_dependencies")

create_bot_user ==
    /\ dPc = "create_bot_user"
    /\ dTrace' = Append(dTrace, "create_bot_user")
    /\ \E useraddOk \in BOOLEAN, mkdirOk \in BOOLEAN :
          LET added == ~dUserExists /\ useraddOk
              stopped1 == ~dUserExists /\ ~useraddOk
              made == ~stopped1 /\ mkdirOk
          IN  /\ dUserExists' = (dUserExists \/ added)
              /\ dChanges' = dChanges \cup (IF added THEN {"useradd"} ELSE {})
                                      \cup (IF made THEN {"mkdir"} ELSE {})
              /\ dFailed' = dFailed \cup (IF stopped1 THEN {"useradd"} ELSE {})
                                    \cup (IF ~stopped1 /\ ~mkdirOk THEN {"mkdir"} ELSE {})
              /\ dPc' = IF made THEN nextStep("create_bot_user") ELSE "exited"
              /\ dExit' = IF made THEN dExit ELSE 1
    /\ UNCHANGED <<dEuid, dActiveAtCheck, dComplete>>
    /\ UNCHANGED <<uiVars, updateVars>>

download_bot == runStep("download_bot")

setup_python_env == runStep("setup_python_env")

configure_env == runStep("configure_env")

create_service == runStep("create_service")

\* systemctl start, sleep 5, then is-active; status returns non-zero when the
\* service has stopped running since is-active answered
test_bot ==
    /\ dPc = "test_bot"
    /\ dTrace' = Append(dTrace, "test_bot")
    /\ \E startOk \in BOOLEAN, active \in BOOLEAN, statusOk \in BOOLEAN :
          IF ~startOk
          THEN /\ dFailed' = dFailed \cup {"systemctl start"}
               /\ dChanges' = dChanges
               /\ dActiveAtCheck' = dActiveAtCheck
               /\ dPc' = "exited" /\ dExit' = 1
          ELSE /\ dChanges' = dChanges \cup {"systemctl start"}
               /\ dActiveAtCheck' = IF active THEN "active" ELSE "inactive"
               /\ IF active /\ statusOk
                  THEN dFailed' = dFailed /\ dPc' = nextStep("test_bot")
                       /\ dExit' = dExit
                  ELSE /\ dFailed' = dFailed \cup
                                     (IF active THEN {"systemctl status"} ELSE {})
                       /\ dPc' = "exited" /\ dExit' = 1
    /\ UNCHANGED <<dEuid, dUserExists, dComplete>>
    /\ UNCHANGED <<uiVars, updateVars>>

show_management ==
    /\ dPc = "show_management"
    /\ dTrace' = Append(dTrace, "show_management")
    /\ dComplete' = TRUE
    /\ dPc' = "done"
    /\ dExit' = 0
    /\ UNCHANGED <<dEuid, dUserExists, dChanges, dFailed, dActiveAtCheck>>
    /\ UNCHANGED <<uiVars, updateVars>>

\* ====================================================== the update script
\* mutant: the script runs without set -e
updateNoErrexit(ok) == FALSE

\* set -e of the update script: a failing simple command ends the run
updateErrexit(ok) == ~ok

Ran(cmd, ok) == [cmd |-> cmd, ok |-> ok]

updateCheckRoot ==
    /\ uPc = "check_root"
    /\ IF uEuid = 0
       THEN uPc' = "stop" /\ uExit' = uExit
       ELSE uPc' = "exited" /\ uExit' = 1
    /\ UNCHANGED <<uEuid, uService, uMainPy, uLog, uOut, uRuns>>
    /\ UNCHANGED <<uiVars, deployVars>>

\* [1/4] systemctl stop
updateStop ==
    /\ uPc = "stop"
    /\ \E ok \in BOOLEAN :
          /\ uLog' = Append(uLog, Ran("systemctl stop", ok))
          /\ uService' = IF ok THEN "stopped" ELSE uService
          /\ IF updateErrexit(ok)
             THEN uPc' = "exited" /\ uExit' = 1
             ELSE uPc' = "download" /\ uExit' = uExit
    /\ UNCHANGED <<uEuid, uMainPy, uOut, uRuns>>
    /\ UNCHANGED <<uiVars, deployVars>>

\* [2/4] wget -O main.py: the file is the new one on success; on failure it
\* is untouched (wget never ran) or truncated (-O opens it first)
updateDownload ==
    /\ uPc = "download"
    /\ \E ok \in BOOLEAN, touched \in BOOLEAN :
          /\ uLog' = Append(uLog, Ran("wget", ok))
          /\ uMainPy' = IF ok THEN [content |-> "new", run |-> uRuns]
                        ELSE IF touched THEN [content |-> "partial", run |-> uRuns]
                        ELSE uMainPy
          /\ IF updateErrexit(ok)
             THEN uPc' = "exited" /\ uExit' = 1
             ELSE uPc' = "start" /\ uExit' = uExit
    /\ UNCHANGED <<uEuid, uService, uOut, uRuns>>
    /\ UNCHANGED <<uiVars, deployVars>>

\* [3/4] systemctl start
updateStart ==
    /\ uPc = "start"
    /\ \E ok \in BOOLEAN :
          /\ uLog' = Append(uLog, Ran("systemctl start", ok))
          /\ uService' = IF ok THEN "active" ELSE "failed"
          /\ IF updateErrexit(ok)
             THEN uPc' = "exited" /\ uExit' = 1
             ELSE uPc' = "check" /\ uExit' = uExit
    /\ UNCHANGED <<uEuid, uMainPy, uOut, uRuns>>
    /\ UNCHANGED <<uiVars, deployVars>>

\* [4/4] sleep 3, is-active, then status or journalctl, then the last echo;
\* status returns non-zero when the service stopped running after is-active.
\* echo, sleep and journalctl only write to the terminal and return 0.
updateCheck ==
    /\ uPc = "check"
    /\ \E statusOk \in BOOLEAN :
          IF uService = "active"
          THEN /\ uLog' = Append(Append(uLog, Ran("systemctl is-active", TRUE)),
                                 Ran("systemctl status", statusOk))
               /\ uService' = IF statusOk THEN uService ELSE "restarting"
               /\ IF updateErrexit(statusOk)
                  THEN /\ uPc' = "exited" /\ uExit' = 1
                       /\ uOut' = uOut \cup {"running"}
                  ELSE /\ uPc' = "done" /\ uExit' = 0
                       /\ uOut' = uOut \cup {"running", "Update completed!"}
          ELSE /\ uLog' = Append(uLog, Ran("systemctl is-active", FALSE))
               /\ uService' = uService
               /\ uPc' = "done" /\ uExit' = 0
               /\ uOut' = uOut \cup {"failed", "Update completed!"}
    /\ UNCHANGED <<uEuid, uMainPy, uRuns>>
    /\ UNCHANGED <<uiVars, deployVars>>

\* the operator starts the script again, as root or not
updateAgain ==
    /\ uPc \in {"done", "exited"}
    /\ uRuns < MaxRuns
    /\ uRuns' = uRuns + 1
    /\ uEuid' \in {0, 1000}
    /\ uPc' = "check_root"
    /\ uLog' = <<>>
    /\ uOut' = {}
    /\ uExit' = -1
    /\ UNCHANGED <<uService, uMainPy>>
    /\ UNCHANGED <<uiVars, deployVars>>

\* Restart=always, RestartSec=10: a running bot that exits is started again
\* after the backoff; a unit stopped by systemctl stop is not
serviceExits ==
    /\ uService = "active"
    /\ uService' = "restarting"
    /\ UNCHANGED <<uPc, uEuid, uMainPy, uLog, uOut, uExit, uRuns>>
    /\ UNCHANGED <<uiVars, deployVars>>

serviceRestarts ==
    /\ uService = "restarting"
    /\ uService' = "active"
    /\ UNCHANGED <<uPc, uEuid, uMainPy, uLog, uOut, uExit, uRuns>>
    /\ UNCHANGED <<uiVars, deployVars>>

\* ------------------------------------------------------- specifications
\* the scripts before they are started
DeployIdle ==
    /\ dPc = "check_root"
    /\ dChanges = {}
    /\ dFailed = {}
    /\ dTrace = <<>>
    /\ dActiveAtCheck = "unchecked"
    /\ dComplete = FALSE
    /\ dExit = -1

UpdateIdle ==
    /\ uPc = "check_root"
    /\ uMainPy = [content |-> "old", run |-> 0]
    /\ uLog = <<>>
    /\ uOut = {}
    /\ uExit = -1
    /\ uRuns = 1

ScriptsIdle ==
    /\ DeployIdle /\ dEuid = 0 /\ dUserExists = FALSE
    /\ UpdateIdle /\ uEuid = 0 /\ uService = "active"

InitPage ==
    /\ outputHeaders = <<>>
    /\ writeRequests = <<>>
    /\ clipboard = OtherText
    /\ alertShown = FALSE
    /\ lastEvent = "load"
    /\ snapshot = NoSnapshot

\* the pure transform: any pasted input, then one format request
InitFormat ==
    /\ inputHeaders \in Strings(Chars, MaxLen)
    /\ InitPage
    /\ ScriptsIdle

NextFormat == formatHeaders

SpecFormat == InitFormat /\ [][NextFormat]_vars

\* the page: edits, format requests and copy requests in any order
InitUI ==
    /\ inputHeaders = <<>>
    /\ InitPage
    /\ ScriptsIdle

NextUI ==
    \/ editInput
    \/ formatHeaders
    \/ copyToClipboard
    \/ dismissAlert
    \/ clipboardWriteFulfilled
    \/ clipboardWriteRejected

SpecUI == InitUI /\ [][NextUI]_vars

\* one run of deploy-bot.sh, as root or not, the account existing or not
InitDeploy ==
    /\ DeployIdle
    /\ dEuid \in {0, 1000}
    /\ dUserExists \in BOOLEAN
    /\ UpdateIdle /\ uEuid = 0 /\ uService = "active"
    /\ inputHeaders = <<>>
    /\ InitPage

NextDeploy ==
    \/ check_root
    \/ update_system
    \/ install_dependencies
    \/ create_bot_user
    \/ download_bot
    \/ setup_python_env
    \/ configure_env
    \/ create_service
    \/ test_bot
    \/ show_management

SpecDeploy == InitDeploy /\ [][NextDeploy]_vars

\* one run of the update script, the service in any state when it starts
InitUpdate ==
    /\ UpdateIdle
    /\ uEuid \in {0, 1000}
    /\ uService \in {"active", "restarting", "stopped", "failed"}
    /\ DeployIdle /\ dEuid = 0 /\ dUserExists = FALSE
    /\ inputHeaders = <<>>
    /\ InitPage

NextUpdate ==
    \/ updateCheckRoot
    \/ updateStop
    \/ updateDownload
    \/ updateStart
    \/ updateCheck
    \/ updateAgain
    \/ serviceExits
    \/ serviceRestarts

SpecUpdate == InitUpdate /\ [][NextUpdate]_vars

\* ============================================================== claims
\* ------------------------------------------------- vocabulary of the claims
Formatted == lastEvent = "format"

rawLines == split(inputHeaders)

isBlank(l) == trim(l) = <<>>

hasContent(l) == ~isBlank(l)

whitespaceOnly(l) == l # <<>> /\ isBlank(l)

RECURSIVE joinLines(_)
joinLines(ls) ==
    IF ls = <<>> THEN <<>>
    ELSE IF Len(ls) = 1 THEN ls[1]
    ELSE ls[1] \o <<NL>> \o joinLines(Tail(ls))

lineCount(s) == IF s = <<>> THEN 0 ELSE Len(split(s))

headerLine(name, value) == trim(name) \o <<":", SP>> \o trim(value)

without(ls, drop) ==
    LET keep == {q \in 1..Len(ls) : q \notin drop}
        RECURSIVE pick(_)
        pick(q) == IF q > Len(ls) THEN <<>>
                   ELSE IF q \in keep THEN <<ls[q]>> \o pick(q + 1)
                   ELSE pick(q + 1)
    IN  pick(1)

insertedAt(ls, p, l) == SubSeq(ls, 1, p) \o <<l>> \o SubSeq(ls, p + 1, Len(ls))

\* ------------------------------------------------------------------- C1
C1_WellFormed ==
    \/ inputHeaders = <<>>
    \/ /\ Len(rawLines) % 2 = 0
       /\ \A p \in 1..Len(rawLines) : hasContent(rawLines[p])

C1_Pairs == IF inputHeaders = <<>> THEN 0 ELSE Len(rawLines) \div 2

C1_Expected ==
    joinLines([k \in 1..C1_Pairs |->
                  headerLine(rawLines[2 * k - 1], rawLines[2 * k])])

\* C1: an input of 2n lines, each non-empty after trimming, is formatted into
\* exactly n lines, the i-th being "<trim(line 2i-1)>: <trim(line 2i)>", in
\* input order, joined by single newlines with no leading or trailing blank
\* line; the empty input gives the empty output.
C1_WellFormedPairs ==
    (Formatted /\ C1_WellFormed) =>
        /\ outputHeaders = C1_Expected
        /\ lineCount(outputHeaders) = C1_Pairs

C1_Witness ==
    /\ Formatted /\ C1_WellFormed
    /\ C1_Pairs = 2
    /\ rawLines[1] # rawLines[3]
    /\ outputHeaders = C1_Expected

\* ------------------------------------------------------------------- C2
C2_Lines == linesOf(inputHeaders)

C2_Kept(k) ==
    /\ 2 * k <= Len(C2_Lines)
    /\ hasContent(C2_Lines[2 * k - 1])
    /\ hasContent(C2_Lines[2 * k])

C2_Slots == [k \in 1..((Len(C2_Lines) + 1) \div 2) |-> k]

C2_Expected ==
    LET kept == SelectSeq(C2_Slots, C2_Kept)
    IN  joinLines([j \in 1..Len(kept) |->
                      headerLine(C2_Lines[2 * kept[j] - 1], C2_Lines[2 * kept[j]])])

\* C2: the pair at positions (2k+1, 2k+2) of the filtered lines is emitted if
\* and only if its name and its value both exist and are non-empty after
\* trimming; any other pair is dropped alone, the later pairs keep their
\* positions, and the format request ends normally for every input.
C2_PairEmittedIffBothPresent ==
    Formatted => outputHeaders = C2_Expected

C2_Witness ==
    /\ Formatted
    /\ Len(C2_Lines) = 4
    /\ ~C2_Kept(1) /\ C2_Kept(2)
    /\ outputHeaders = headerLine(C2_Lines[3], C2_Lines[4])

\* ------------------------------------------------------------------- C3
C3_Slot(p) == Cardinality({q \in 1..p : rawLines[q] # <<>>})

C3_PairStart(slot) == 2 * ((slot + 1) \div 2) - 1

C3_Dropped(lines, slot) ==
    /\ C3_PairStart(slot) \notin
          {runLoop(lines, <<>>).used[j] : j \in 1..Len(runLoop(lines, <<>>).used)}
    /\ outputHeaders =
          formatLines(without(lines, {C3_PairStart(slot), C3_PairStart(slot) + 1}),
                      <<>>)

C3_KeptAndDropped(p, slot) ==
    /\ slot <= Len(linesOf(inputHeaders))
    /\ linesOf(inputHeaders)[slot] = rawLines[p]
    /\ C3_Dropped(linesOf(inputHeaders), slot)

\* C3 as stated: a whitespace-only, non-empty line at any position of the
\* input, the first and the last included, is kept by the filter, takes one
\* slot of the pairing, and its pair is dropped.
C3_Original ==
    Formatted =>
        \A p \in 1..Len(rawLines) :
            whitespaceOnly(rawLines[p]) => C3_KeptAndDropped(p, C3_Slot(p))

C3_FirstContent == CHOOSE p \in 1..Len(rawLines) :
    hasContent(rawLines[p]) /\ \A q \in 1..(p - 1) : isBlank(rawLines[q])

C3_Interior(p) ==
    /\ \E q \in 1..(p - 1) : hasContent(rawLines[q])
    /\ \E q \in (p + 1)..Len(rawLines) : hasContent(rawLines[q])

C3_InteriorSlot(p) ==
    Cardinality({q \in C3_FirstContent..p : rawLines[q] # <<>>})

\* C3 amended: a whitespace-only, non-empty line that has a line with a
\* non-whitespace character somewhere before it and somewhere after it is
\* kept by the filter, takes one slot of the pairing (counted from the first
\* line with content), and its pair is dropped.
C3_InteriorWhitespaceLineKept ==
    Formatted =>
        \A p \in 1..Len(rawLines) :
            (whitespaceOnly(rawLines[p]) /\ C3_Interior(p)) =>
                C3_KeptAndDropped(p, C3_InteriorSlot(p))

C3_Witness ==
    /\ Formatted
    /\ Len(rawLines) = 4
    /\ whitespaceOnly(rawLines[2]) /\ C3_Interior(2)
    /\ linesOf(inputHeaders)[2] = rawLines[2]
    /\ outputHeaders = headerLine(rawLines[3], rawLines[4])

\* ------------------------------------------------------------------- C4
C4_WithEmptyLine(p) == joinLines(insertedAt(rawLines, p, <<>>))

C4_WithoutLine(p) == joinLines(without(rawLines, {p}))

\* C4: inserting an empty line at any position of the input, or deleting any
\* empty line of it, leaves the formatted output unchanged.
C4_EmptyLinesIgnored ==
    Formatted =>
        /\ \A p \in 0..Len(rawLines) :
              formatted(C4_WithEmptyLine(p), <<>>) = outputHeaders
        /\ \A p \in 1..Len(rawLines) :
              (rawLines[p] = <<>> /\ Len(rawLines) > 1) =>
                  formatted(C4_WithoutLine(p), <<>>) = outputHeaders

C4_Witness ==
    /\ Formatted
    /\ Len(rawLines) = 4
    /\ hasContent(rawLines[1]) /\ rawLines[2] = <<>> /\ rawLines[3] = <<>>
    /\ outputHeaders = headerLine(rawLines[1], rawLines[4])

\* ------------------------------------------------------------------- C5
C5_NonEmptyLines == Cardinality({p \in 1..Len(rawLines) : rawLines[p] # <<>>})

C5_Used == runLoop(linesOf(inputHeaders), <<>>).used

\* C5: the output has at most floor(m / 2) lines, m being the number of
\* non-empty lines of the raw input, and every line feeds at most one output
\* line: the output lines come one for one from disjoint pairs of lines.
C5_AtMostHalfTheLines ==
    Formatted =>
        /\ lineCount(outputHeaders) <= C5_NonEmptyLines \div 2
        /\ lineCount(outputHeaders) = Len(C5_Used)
        /\ \A j, k \in 1..Len(C5_Used) :
              j # k => {C5_Used[j], C5_Used[j] + 1} \cap {C5_Used[k], C5_Used[k] + 1} = {}

C5_Witness ==
    /\ Formatted
    /\ C5_NonEmptyLines = 4
    /\ lineCount(outputHeaders) = 2
    /\ C5_Used = <<1, 3>>

\* ------------------------------------------------------------------- C6
\* C6: right after a format request the output field is a function of the
\* input field at that request alone: whatever was typed, formatted or copied
\* since an earlier format request, formatting the input of that earlier
\* request again gives the output it gave then.
C6_OutputDependsOnInputOnly ==
    (Formatted /\ snapshot.taken /\ snapshot.input = inputHeaders) =>
        outputHeaders = snapshot.output

C6_Witness ==
    /\ Formatted
    /\ snapshot.taken /\ snapshot.phase = "again"
    /\ snapshot.input = inputHeaders
    /\ outputHeaders # <<>>
    /\ clipboard = <<>>

\* ------------------------------------------------------------------- C7
\* C7: whenever the acknowledgment "Formatted headers copied to clipboard!"
\* is on screen, the clipboard holds the text the output field had when the
\* copy was requested (the field cannot change while the alert is up).
C7_AcknowledgedMeansStored ==
    alertShown => clipboard = outputHeaders

\* ------------------------------------------------------------------- C8
C8_CopyStep == ~alertShown /\ alertShown'

\* C8: a copy request changes neither field, and the text it hands to the
\* clipboard is the output field's content at that moment.
C8_CopyLeavesFieldsAlone ==
    [][C8_CopyStep =>
          /\ inputHeaders' = inputHeaders
          /\ outputHeaders' = outputHeaders
          /\ writeRequests' = Append(writeRequests, outputHeaders)]_vars

C8_Witness ==
    /\ lastEvent = "copy" /\ alertShown
    /\ writeRequests # <<>>
    /\ writeRequests[Len(writeRequests)] = outputHeaders
    /\ outputHeaders # <<>>
    /\ formatted(inputHeaders, <<>>) # outputHeaders
    /\ inputHeaders # <<>>

\* ------------------------------------------------------------------- C9
C9_IsPrefix(t, order) ==
    /\ Len(t) <= Len(order)
    /\ \A i \in 1..Len(t) : t[i] = order[i]

\* C9: deploy-bot.sh runs its steps in the fixed order, the first failing
\* command ends the run, a run not started as root exits before any system
\* change, and the "deployment complete" banner is printed only if no earlier
\* command failed and the service was active at the check after its start.
C9_FirstFailureEndsRun ==
    /\ C9_IsPrefix(dTrace, StepOrder)
    /\ dFailed # {} => dPc = "exited"
    /\ dEuid # 0 => (dChanges = {} /\ dPc \in {"check_root", "exited"})
    /\ dComplete => (dFailed = {} /\ dActiveAtCheck = "active")

\* ------------------------------------------------------------------ C10
C10_Before(i, entry) == \E j \in 1..(i - 1) : uLog[j] = entry

C10_Last == uLog[Len(uLog)]

C10_EndedBy(cmd) ==
    uLog # <<>> /\ C10_Last = Ran(cmd, FALSE)

\* C10: in a run of the update script, main.py is overwritten only after
\* systemctl stop has succeeded and systemctl start is issued only after the
\* download has succeeded; a failing stop or download ends the run there with
\* no start issued, a failed download leaving the service stopped; a service
\* found not active at the check is only reported, and the run still ends
\* with "Update completed!" and status 0.
C10_StopDownloadStartInOrder ==
    /\ \A i \in 1..Len(uLog) :
          /\ uLog[i].cmd = "wget" => C10_Before(i, Ran("systemctl stop", TRUE))
          /\ uLog[i].cmd = "systemctl start" => C10_Before(i, Ran("wget", TRUE))
          /\ (uLog[i].cmd \in {"systemctl stop", "wget"} /\ ~uLog[i].ok) =>
                (i = Len(uLog) /\ uPc = "exited")
    /\ uMainPy.run = uRuns => C10_Before(Len(uLog) + 1, Ran("systemctl stop", TRUE))
    /\ C10_EndedBy("wget") => uService = "stopped"
    /\ "failed" \in uOut =>
          (uPc = "done" /\ "Update completed!" \in uOut /\ uExit = 0)

C10_Witness ==
    /\ uRuns = 2
    /\ uPc = "done"
    /\ uOut = {"failed", "Update completed!"}
    /\ uMainPy = [content |-> "new", run |-> 2]
    /\ uLog = <<Ran("systemctl stop", TRUE), Ran("wget", TRUE),
                Ran("systemctl start", TRUE), Ran("systemctl is-active", FALSE)>>

====
